---- MODULE Spec2Model ----
(***************************************************************************)
(* The Solaris backend of getrandom (src/src/solaris.rs) and the stub      *)
(* backend (src/src/dummy.rs) as a state machine.                          *)
(*                                                                         *)
(* Every thread runs getrandom(dest) calls one after the other.  A call    *)
(* walks dest in chunks of at most 1024 bytes; for each chunk it resolves  *)
(* the thread-local RNG_SOURCE if it is still None (asking the process-wide *)
(* is_getrandom_available, which probes once under a std::sync::Once) and  *)
(* then reads the chunk from the device or through the syscall.  Every     *)
(* call into the operating system (the syscall, File::open, read_exact)    *)
(* is one step whose outcome is chosen nondeterministically.               *)
(***************************************************************************)
EXTENDS Integers, Sequences, FiniteSets, TLC

\* ------------------------------------------------------------------ bounds
NumThreads == 2

Threads == 1..NumThreads

\* ------------------------------------------------------- program constants
\* dest.chunks_mut(1024)
ChunkSize == 1024

\* The buffer lengths the callers pass: the empty buffer and one of two chunks
\* when all threads run, the lengths of the test list (and 3000) when one
\* thread runs.
ConcurrentLens == {0, ChunkSize + 1}
SingleLens == {0, 1, 31, 1024, 1025, 3000, 4096}

Workloads ==
    { [threads |-> Threads, lens |-> ConcurrentLens],
      [threads |-> {1},     lens |-> SingleLens] }

Backends == {"solaris", "dummy"}

\* errno values a failed getrandom syscall leaves behind
Errnos == {"ENOSYS", "EAGAIN", "EFAULT"}

VARIABLES
    backend,     \* which backend the dispatch layer compiled in
    threads,     \* the threads of the process
    lens,        \* the buffer lengths the callers use
    CHECKER,     \* static CHECKER: Once
    AVAILABLE,   \* static AVAILABLE: AtomicBool
    probeLog,    \* the probe syscalls executed so far, in order
    stores,      \* how many times AVAILABLE.store has been executed
    openFiles,   \* the File handles on /dev/random that are open
    RNG_SOURCE,  \* thread_local RNG_SOURCE, per thread
    opens,       \* per thread: how many Files it has opened so far
    openFailed,  \* per live thread: a File::open of it has failed before
    pc,          \* per thread: where it is in getrandom
    dest,        \* per thread: the buffer of the running call
    off,         \* per thread: offset of the chunk the loop is at
    available,   \* per thread: the local `available` of the Once closure
    result,      \* per thread: what the call returned
    log          \* per thread: the OS calls of the running call, in order

vars == <<backend, threads, lens, CHECKER, AVAILABLE, probeLog, stores, openFiles,
          RNG_SOURCE, opens, openFailed, pc, dest, off, available, result, log>>

\* ------------------------------------------------------------ RngSource
SrcNone == [tag |-> "None"]
SrcGetRandom == [tag |-> "GetRandom"]
SrcDevice(h) == [tag |-> "Device", file |-> h]
\* the thread-local after its thread has ended
SrcDropped == [tag |-> "Dropped"]

\* no File: what a syscall read goes through, what a failed open yields
NoFile == <<>>

NoDest == [len |-> 0, written |-> {}]

Min(a, b) == IF a < b THEN a ELSE b

\* ------------------------------------------------------ syscall_getrandom
\* What the kernel can return for a request of `size` bytes: -1, or a count
\* of bytes written (the full size, or a short count).
SyscallRets(size) == {-1, size} \cup {n \in {0, size - 1} : n >= 0 /\ n < size}

\* The return value with the errno the thread reads after it: the kernel sets
\* errno when it returns -1 and leaves it alone otherwise.
KernelReturns(size) ==
    { [ret |-> r, errno |-> e] : r \in {-1}, e \in Errnos }
    \cup { [ret |-> r, errno |-> "unchanged"] : r \in SyscallRets(size) \ {-1} }

\* as SyscallGetrandom, with the short-count test left out (if ret == -1)
SyscallGetrandomNoShortCheck(size, ret, errno) ==
    IF ret = -1
    THEN [ok |-> FALSE, errno |-> errno]
    ELSE [ok |-> TRUE, errno |-> "none"]

\* if ret == -1 || ret != dest.len() { Err(last_os_error) } else { Ok(()) }
SyscallGetrandom(size, ret, errno) ==
    IF ret = -1 \/ ret # size
    THEN [ok |-> FALSE, errno |-> errno]
    ELSE [ok |-> TRUE, errno |-> "none"]

\* bytes of the chunk the kernel wrote for a return value
SyscallWritten(ret) == IF ret > 0 THEN ret ELSE 0

\* ------------------------------------------------------------- read_exact
\* read_exact either fills the whole chunk, or fails after writing n < size
\* bytes of it.
ShortCounts(size) == {n \in {0, size - 1} : n >= 0 /\ n < size}

\* ------------------------------------------------- is_getrandom_available
\* as ProbeAvailable, with every failed probe read as "no such syscall"
ProbeAvailableStrict(r) == r.ok

\* match syscall_getrandom(&mut buf) { Ok => true, ENOSYS => false, Err => true }
ProbeAvailable(r) ==
    IF r.ok THEN TRUE
    ELSE IF r.errno = "ENOSYS" THEN FALSE
    ELSE TRUE

\* length of the probe's buffer: let mut buf: [u8; 0] = []
ProbeLen == 0

\* ------------------------------------------------------------- getrandom
\* as ChunkLen, with the device's limit of 1040 bytes as the chunk size
ChunkLenDeviceLimit(L, o) == Min(1040, L - o)

\* as ChunkLen, without chunking: one read for the whole buffer
ChunkLenUnchunked(L, o) == L - o

\* the slice dest.chunks_mut(1024) yields at offset o of a buffer of length L
ChunkLen(L, o) == Min(ChunkSize, L - o)

\* as LoopPc, with a loop that tests for the end only after a first read
LoopPcReadFirst(L, o, src) ==
    IF o >= L /\ o > 0 THEN "done"
    ELSE IF src.tag = "None" THEN "call_once"
    ELSE "read"

\* The loop head at offset o: no chunk left returns Ok(()); otherwise the
\* closure starts: a source that is still None is resolved first.
LoopPc(L, o, src) ==
    IF o >= L THEN "done"
    ELSE IF src.tag = "None" THEN "call_once"
    ELSE "read"

LoopResult(L, o) == IF o >= L THEN "Ok" ELSE "none"

TypeOK ==
    /\ backend \in Backends
    /\ threads \subseteq Threads
    /\ CHECKER \in {"INCOMPLETE", "RUNNING", "COMPLETE"}
    /\ AVAILABLE \in BOOLEAN
    /\ stores \in Nat
    /\ \A t \in Threads :
        /\ pc[t] \in {"idle", "call_once", "probe", "store", "once_done", "load",
                      "open", "read", "done", "exited"}
        /\ RNG_SOURCE[t].tag \in {"None", "GetRandom", "Device", "Dropped"}
        /\ result[t] \in {"none", "Ok", "Unknown", "Unavailable"}
        /\ available[t] \in BOOLEAN

Init ==
    /\ backend \in Backends
    /\ \E w \in Workloads : threads = w.threads /\ lens = w.lens
    /\ CHECKER = "INCOMPLETE"
    /\ AVAILABLE = FALSE
    /\ probeLog = <<>>
    /\ stores = 0
    /\ openFiles = {}
    /\ RNG_SOURCE = [t \in Threads |-> SrcNone]
    /\ opens = [t \in Threads |-> 0]
    /\ openFailed = [t \in Threads |-> FALSE]
    /\ pc = [t \in Threads |-> "idle"]
    /\ dest = [t \in Threads |-> NoDest]
    /\ off = [t \in Threads |-> 0]
    /\ available = [t \in Threads |-> FALSE]
    /\ result = [t \in Threads |-> "none"]
    /\ log = [t \in Threads |-> <<>>]

\* as DummyCall, with the empty buffer treated as trivially filled
DummyCallEmptyOk(t, L) ==
    /\ backend = "dummy"
    /\ t \in threads /\ pc[t] = "idle" /\ L \in lens
    /\ dest' = [dest EXCEPT ![t] = [len |-> L, written |-> {}]]
    /\ off' = [off EXCEPT ![t] = 0]
    /\ log' = [log EXCEPT ![t] = <<>>]
    /\ pc' = [pc EXCEPT ![t] = "done"]
    /\ result' = [result EXCEPT ![t] = IF L = 0 THEN "Ok" ELSE "Unavailable"]
    /\ UNCHANGED <<backend, threads, lens, CHECKER, AVAILABLE, probeLog, stores, openFiles,
                   RNG_SOURCE, opens, openFailed, available>>

\* dummy.rs getrandom: Err(Error::Unavailable), whatever the buffer
DummyCall(t, L) ==
    /\ backend = "dummy"
    /\ t \in threads /\ pc[t] = "idle" /\ L \in lens
    /\ dest' = [dest EXCEPT ![t] = [len |-> L, written |-> {}]]
    /\ off' = [off EXCEPT ![t] = 0]
    /\ log' = [log EXCEPT ![t] = <<>>]
    /\ pc' = [pc EXCEPT ![t] = "done"]
    /\ result' = [result EXCEPT ![t] = "Unavailable"]
    /\ UNCHANGED <<backend, threads, lens, CHECKER, AVAILABLE, probeLog, stores, openFiles,
                   RNG_SOURCE, opens, openFailed, available>>

\* as Call, with a source that is not kept between calls: every call starts
\* from None and resolves it again
CallResolvesAgain(t, L) ==
    /\ backend = "solaris"
    /\ t \in threads /\ pc[t] = "idle" /\ L \in lens
    /\ dest' = [dest EXCEPT ![t] = [len |-> L, written |-> {}]]
    /\ off' = [off EXCEPT ![t] = 0]
    /\ log' = [log EXCEPT ![t] = <<>>]
    /\ RNG_SOURCE' = [RNG_SOURCE EXCEPT ![t] = SrcNone]
    /\ pc' = [pc EXCEPT ![t] = LoopPc(L, 0, SrcNone)]
    /\ result' = [result EXCEPT ![t] = LoopResult(L, 0)]
    /\ UNCHANGED <<backend, threads, lens, CHECKER, AVAILABLE, probeLog, stores, openFiles,
                   opens, openFailed, available>>

\* solaris.rs getrandom is entered with a buffer of length L, up to the point
\* where the first chunk's closure needs the OS (or the loop has no chunk).
Call(t, L) ==
    /\ backend = "solaris"
    /\ t \in threads /\ pc[t] = "idle" /\ L \in lens
    /\ dest' = [dest EXCEPT ![t] = [len |-> L, written |-> {}]]
    /\ off' = [off EXCEPT ![t] = 0]
    /\ log' = [log EXCEPT ![t] = <<>>]
    /\ pc' = [pc EXCEPT ![t] = LoopPc(L, 0, RNG_SOURCE[t])]
    /\ result' = [result EXCEPT ![t] = LoopResult(L, 0)]
    /\ UNCHANGED <<backend, threads, lens, CHECKER, AVAILABLE, probeLog, stores, openFiles,
                   RNG_SOURCE, opens, openFailed, available>>

\* CHECKER.call_once by the first caller: it runs the closure
OnceBegin(t) ==
    /\ pc[t] = "call_once"
    /\ CHECKER = "INCOMPLETE"
    /\ CHECKER' = "RUNNING"
    /\ pc' = [pc EXCEPT ![t] = "probe"]
    /\ UNCHANGED <<backend, threads, lens, AVAILABLE, probeLog, stores, openFiles,
                   RNG_SOURCE, opens, openFailed, dest, off, available, result, log>>

\* as OncePass, without a Once: a caller that finds the probe done runs it again
OncePassProbeAgain(t) ==
    /\ pc[t] = "call_once"
    /\ CHECKER = "COMPLETE"
    /\ pc' = [pc EXCEPT ![t] = "probe"]
    /\ UNCHANGED <<backend, threads, lens, CHECKER, AVAILABLE, probeLog, stores, openFiles,
                   RNG_SOURCE, opens, openFailed, dest, off, available, result, log>>

\* as OncePass, with a latch that only tells "someone started": a caller that
\* finds the closure running does not wait for it
OncePassNoWait(t) ==
    /\ pc[t] = "call_once"
    /\ CHECKER # "INCOMPLETE"
    /\ pc' = [pc EXCEPT ![t] = "load"]
    /\ UNCHANGED <<backend, threads, lens, CHECKER, AVAILABLE, probeLog, stores, openFiles,
                   RNG_SOURCE, opens, openFailed, dest, off, available, result, log>>

\* CHECKER.call_once after the closure has completed: returns at once.  While
\* another thread runs the closure the caller blocks (no step).
OncePass(t) ==
    /\ pc[t] = "call_once"
    /\ CHECKER = "COMPLETE"
    /\ pc' = [pc EXCEPT ![t] = "load"]
    /\ UNCHANGED <<backend, threads, lens, CHECKER, AVAILABLE, probeLog, stores, openFiles,
                   RNG_SOURCE, opens, openFailed, dest, off, available, result, log>>

\* the closure's probe: syscall_getrandom on the empty buffer, and the match
Probe(t) ==
    /\ pc[t] = "probe"
    /\ \E k \in KernelReturns(ProbeLen) :
        /\ probeLog' = Append(probeLog,
                [size |-> ProbeLen, ret |-> k.ret, errno |-> k.errno])
        /\ available' = [available EXCEPT ![t] =
                ProbeAvailable(SyscallGetrandom(ProbeLen, k.ret, k.errno))]
    /\ pc' = [pc EXCEPT ![t] = "store"]
    /\ UNCHANGED <<backend, threads, lens, CHECKER, AVAILABLE, stores, openFiles,
                   RNG_SOURCE, opens, openFailed, dest, off, result, log>>

\* AVAILABLE.store(available, Ordering::Relaxed)
Store(t) ==
    /\ pc[t] = "store"
    /\ AVAILABLE' = available[t]
    /\ stores' = stores + 1
    /\ pc' = [pc EXCEPT ![t] = "once_done"]
    /\ UNCHANGED <<backend, threads, lens, CHECKER, probeLog, openFiles,
                   RNG_SOURCE, opens, openFailed, dest, off, available, result, log>>

\* as OnceComplete, with a latch that is never marked complete
OnceCompleteNoRelease(t) ==
    /\ pc[t] = "once_done"
    /\ available' = [available EXCEPT ![t] = FALSE]
    /\ pc' = [pc EXCEPT ![t] = "load"]
    /\ UNCHANGED <<backend, threads, lens, CHECKER, AVAILABLE, probeLog, stores, openFiles,
                   RNG_SOURCE, opens, openFailed, dest, off, result, log>>

\* the closure returns (its local goes out of scope): the Once is complete and
\* its waiters are released
OnceComplete(t) ==
    /\ pc[t] = "once_done"
    /\ CHECKER' = "COMPLETE"
    /\ available' = [available EXCEPT ![t] = FALSE]
    /\ pc' = [pc EXCEPT ![t] = "load"]
    /\ UNCHANGED <<backend, threads, lens, AVAILABLE, probeLog, stores, openFiles,
                   RNG_SOURCE, opens, openFailed, dest, off, result, log>>

\* as Load, with the fallback branch forgotten: the source becomes GetRandom
\* whatever the flag says
LoadIgnoresFlag(t) ==
    /\ pc[t] = "load"
    /\ RNG_SOURCE' = [RNG_SOURCE EXCEPT ![t] = SrcGetRandom]
    /\ pc' = [pc EXCEPT ![t] = "read"]
    /\ UNCHANGED <<backend, threads, lens, CHECKER, AVAILABLE, probeLog, stores, openFiles,
                   opens, openFailed, dest, off, available, result, log>>

\* AVAILABLE.load(Ordering::Relaxed), and the branch of getrandom on it
Load(t) ==
    /\ pc[t] = "load"
    /\ IF AVAILABLE
       THEN /\ RNG_SOURCE' = [RNG_SOURCE EXCEPT ![t] = SrcGetRandom]
            /\ pc' = [pc EXCEPT ![t] = "read"]
       ELSE /\ pc' = [pc EXCEPT ![t] = "open"]
            /\ UNCHANGED RNG_SOURCE
    /\ UNCHANGED <<backend, threads, lens, CHECKER, AVAILABLE, probeLog, stores, openFiles,
                   opens, openFailed, dest, off, available, result, log>>

\* as OpenOk, with RNG_SOURCE a plain static shared by all threads
OpenOkShared(t) ==
    /\ pc[t] = "open"
    /\ LET h == <<t, opens[t] + 1>> IN
        /\ openFiles' = openFiles \cup {h}
        /\ RNG_SOURCE' = [u \in Threads |->
                IF pc[u] = "exited" THEN RNG_SOURCE[u] ELSE SrcDevice(h)]
        /\ log' = [log EXCEPT ![t] = Append(@, [op |-> "open", ok |-> TRUE, file |-> h])]
    /\ opens' = [opens EXCEPT ![t] = @ + 1]
    /\ pc' = [pc EXCEPT ![t] = "read"]
    /\ UNCHANGED <<backend, threads, lens, CHECKER, AVAILABLE, probeLog, stores,
                   openFailed, dest, off, available, result>>

\* File::open("/dev/random") succeeds: *f = RngSource::Device(rng_file)
OpenOk(t) ==
    /\ pc[t] = "open"
    /\ LET h == <<t, opens[t] + 1>> IN
        /\ openFiles' = openFiles \cup {h}
        /\ RNG_SOURCE' = [RNG_SOURCE EXCEPT ![t] = SrcDevice(h)]
        /\ log' = [log EXCEPT ![t] = Append(@, [op |-> "open", ok |-> TRUE, file |-> h])]
    /\ opens' = [opens EXCEPT ![t] = @ + 1]
    /\ pc' = [pc EXCEPT ![t] = "read"]
    /\ UNCHANGED <<backend, threads, lens, CHECKER, AVAILABLE, probeLog, stores,
                   openFailed, dest, off, available, result>>

\* as OpenFail, with the failure remembered in the thread's source: the thread
\* falls back to the syscall for good
OpenFailCached(t) ==
    /\ pc[t] = "open"
    /\ log' = [log EXCEPT ![t] = Append(@, [op |-> "open", ok |-> FALSE, file |-> NoFile])]
    /\ openFailed' = [openFailed EXCEPT ![t] = TRUE]
    /\ RNG_SOURCE' = [RNG_SOURCE EXCEPT ![t] = SrcGetRandom]
    /\ pc' = [pc EXCEPT ![t] = "done"]
    /\ result' = [result EXCEPT ![t] = "Unknown"]
    /\ UNCHANGED <<backend, threads, lens, CHECKER, AVAILABLE, probeLog, stores, openFiles,
                   opens, dest, off, available>>

\* as OpenFail, with the open tried again instead of giving up
OpenFailRetry(t) ==
    /\ pc[t] = "open"
    /\ log' = [log EXCEPT ![t] = Append(@, [op |-> "open", ok |-> FALSE, file |-> NoFile])]
    /\ openFailed' = [openFailed EXCEPT ![t] = TRUE]
    /\ UNCHANGED <<backend, threads, lens, CHECKER, AVAILABLE, probeLog, stores, openFiles,
                   RNG_SOURCE, opens, pc, dest, off, available, result>>

\* File::open("/dev/random") fails: .map_err(|_| Error::Unknown)? leaves the
\* closure before *f is assigned, and the outer ? returns the error
OpenFail(t) ==
    /\ pc[t] = "open"
    /\ log' = [log EXCEPT ![t] = Append(@, [op |-> "open", ok |-> FALSE, file |-> NoFile])]
    /\ openFailed' = [openFailed EXCEPT ![t] = TRUE]
    /\ pc' = [pc EXCEPT ![t] = "done"]
    /\ result' = [result EXCEPT ![t] = "Unknown"]
    /\ UNCHANGED <<backend, threads, lens, CHECKER, AVAILABLE, probeLog, stores, openFiles,
                   RNG_SOURCE, opens, dest, off, available>>

\* as ReadReturns, with a failed read tried again (as for an interrupted read)
ReadReturnsRetry(t, via, size, n, ok) ==
    /\ log' = [log EXCEPT ![t] = Append(@,
            [op |-> "read", ok |-> ok, off |-> off[t], size |-> size, n |-> n,
             src |-> IF via = NoFile THEN "syscall" ELSE "device", file |-> via])]
    /\ dest' = [dest EXCEPT ![t].written =
            IF n > 0 THEN @ \cup {<<off[t], off[t] + n>>} ELSE @]
    /\ IF ok
       THEN /\ off' = [off EXCEPT ![t] = @ + size]
            /\ pc' = [pc EXCEPT ![t] = LoopPc(dest[t].len, off[t] + size, RNG_SOURCE[t])]
            /\ result' = [result EXCEPT ![t] = LoopResult(dest[t].len, off[t] + size)]
       ELSE UNCHANGED <<pc, result, off>>

\* The chunk's read has returned: n bytes of the chunk were written, and ok
\* says whether the read succeeded.  via is the File read from, or NoFile
\* for the syscall.  Success moves to the next chunk, failure
\* returns Err(Error::Unknown).
ReadReturns(t, via, size, n, ok) ==
    /\ log' = [log EXCEPT ![t] = Append(@,
            [op |-> "read", ok |-> ok, off |-> off[t], size |-> size, n |-> n,
             src |-> IF via = NoFile THEN "syscall" ELSE "device", file |-> via])]
    /\ dest' = [dest EXCEPT ![t].written =
            IF n > 0 THEN @ \cup {<<off[t], off[t] + n>>} ELSE @]
    /\ IF ok
       THEN /\ off' = [off EXCEPT ![t] = @ + size]
            /\ pc' = [pc EXCEPT ![t] = LoopPc(dest[t].len, off[t] + size, RNG_SOURCE[t])]
            /\ result' = [result EXCEPT ![t] = LoopResult(dest[t].len, off[t] + size)]
       ELSE /\ pc' = [pc EXCEPT ![t] = "done"]
            /\ result' = [result EXCEPT ![t] = "Unknown"]
            /\ UNCHANGED off

\* as ReadDevice, with the source reset after a failed read, so that the next
\* call resolves it again
ReadDeviceResetOnError(t) ==
    /\ pc[t] = "read"
    /\ RNG_SOURCE[t].tag = "Device"
    /\ LET size == ChunkLen(dest[t].len, off[t]) IN
        \/ /\ ReadReturns(t, RNG_SOURCE[t].file, size, size, TRUE)
           /\ UNCHANGED <<RNG_SOURCE, openFiles>>
        \/ /\ \E n \in ShortCounts(size) :
                ReadReturns(t, RNG_SOURCE[t].file, size, n, FALSE)
           /\ RNG_SOURCE' = [RNG_SOURCE EXCEPT ![t] = SrcNone]
           /\ openFiles' = openFiles \ {RNG_SOURCE[t].file}
    /\ UNCHANGED <<backend, threads, lens, CHECKER, AVAILABLE, probeLog, stores,
                   opens, openFailed, available>>

\* if let RngSource::Device(f) = f { f.read_exact(chunk) }
ReadDevice(t) ==
    /\ pc[t] = "read"
    /\ RNG_SOURCE[t].tag = "Device"
    /\ LET size == ChunkLen(dest[t].len, off[t]) IN
        \/ ReadReturns(t, RNG_SOURCE[t].file, size, size, TRUE)
        \/ \E n \in ShortCounts(size) :
                ReadReturns(t, RNG_SOURCE[t].file, size, n, FALSE)
    /\ UNCHANGED <<backend, threads, lens, CHECKER, AVAILABLE, probeLog, stores, openFiles,
                   RNG_SOURCE, opens, openFailed, available>>

\* as ReadSyscall, with a failed syscall read falling back to the device
ReadSyscallFallback(t) ==
    /\ pc[t] = "read"
    /\ RNG_SOURCE[t].tag # "Device"
    /\ LET size == ChunkLen(dest[t].len, off[t]) IN
        \E k \in KernelReturns(size) :
            IF SyscallGetrandom(size, k.ret, k.errno).ok
            THEN ReadReturns(t, NoFile, size, SyscallWritten(k.ret), TRUE)
            ELSE /\ log' = [log EXCEPT ![t] = Append(@,
                        [op |-> "read", ok |-> FALSE, off |-> off[t], size |-> size,
                         n |-> SyscallWritten(k.ret), src |-> "syscall", file |-> NoFile])]
                 /\ pc' = [pc EXCEPT ![t] = "open"]
                 /\ UNCHANGED <<dest, off, result>>
    /\ UNCHANGED <<backend, threads, lens, CHECKER, AVAILABLE, probeLog, stores, openFiles,
                   RNG_SOURCE, opens, openFailed, available>>

\* else { syscall_getrandom(chunk) }
ReadSyscall(t) ==
    /\ pc[t] = "read"
    /\ RNG_SOURCE[t].tag # "Device"
    /\ LET size == ChunkLen(dest[t].len, off[t]) IN
        \E k \in KernelReturns(size) :
            ReadReturns(t, NoFile, size, SyscallWritten(k.ret),
                        SyscallGetrandom(size, k.ret, k.errno).ok)
    /\ UNCHANGED <<backend, threads, lens, CHECKER, AVAILABLE, probeLog, stores, openFiles,
                   RNG_SOURCE, opens, openFailed, available>>

\* the caller has taken the result; the thread is between calls again
Return(t) ==
    /\ pc[t] = "done"
    /\ pc' = [pc EXCEPT ![t] = "idle"]
    /\ dest' = [dest EXCEPT ![t] = NoDest]
    /\ off' = [off EXCEPT ![t] = 0]
    /\ result' = [result EXCEPT ![t] = "none"]
    /\ log' = [log EXCEPT ![t] = <<>>]
    /\ UNCHANGED <<backend, threads, lens, CHECKER, AVAILABLE, probeLog, stores, openFiles,
                   RNG_SOURCE, opens, openFailed, available>>

\* as ThreadExit, with a File that is never dropped (a leaked handle)
ThreadExitLeak(t) ==
    /\ t \in threads /\ pc[t] = "idle"
    /\ pc' = [pc EXCEPT ![t] = "exited"]
    /\ RNG_SOURCE' = [RNG_SOURCE EXCEPT ![t] = SrcDropped]
    /\ openFailed' = [openFailed EXCEPT ![t] = FALSE]
    /\ UNCHANGED <<backend, threads, lens, CHECKER, AVAILABLE, probeLog, stores, openFiles,
                   opens, dest, off, available, result, log>>

\* The thread ends: its thread-local RNG_SOURCE is dropped, and dropping a
\* Device(File) closes the file.
ThreadExit(t) ==
    /\ t \in threads /\ pc[t] = "idle"
    /\ pc' = [pc EXCEPT ![t] = "exited"]
    /\ openFiles' = IF RNG_SOURCE[t].tag = "Device"
                    THEN openFiles \ {RNG_SOURCE[t].file}
                    ELSE openFiles
    /\ RNG_SOURCE' = [RNG_SOURCE EXCEPT ![t] = SrcDropped]
    /\ openFailed' = [openFailed EXCEPT ![t] = FALSE]
    /\ UNCHANGED <<backend, threads, lens, CHECKER, AVAILABLE, probeLog, stores,
                   opens, dest, off, available, result, log>>

\* the steps of a running call
Step(t) ==
    \/ OnceBegin(t)
    \/ OncePass(t)
    \/ Probe(t)
    \/ Store(t)
    \/ OnceComplete(t)
    \/ Load(t)
    \/ OpenOk(t)
    \/ OpenFail(t)
    \/ ReadDevice(t)
    \/ ReadSyscall(t)

Next ==
    \E t \in Threads :
        \/ \E L \in lens : Call(t, L)
        \/ \E L \in lens : DummyCall(t, L)
        \/ Step(t)
        \/ Return(t)
        \/ ThreadExit(t)

Spec == Init /\ [][Next]_vars

\* Every OS call returns and the scheduler runs every thread: a step of a
\* running call that stays possible is eventually taken.
FairSpec == Spec /\ \A t \in Threads : WF_vars(Step(t))


\* ===================================================================
\* Properties
\* ===================================================================

\* byte i lies in one of the half-open byte ranges
Covered(ranges, i) == \E r \in ranges : r[1] <= i /\ i < r[2]

\* Every byte 0 .. L-1 lies in one of the ranges.  Byte 0 does, and so does
\* the byte after the end of every range that ends before L: the first byte
\* not covered, if there were one, would be 0 or such a byte.
AllCovered(ranges, L) ==
    L > 0 =>
        /\ Covered(ranges, 0)
        /\ \A r \in ranges : r[2] < L => Covered(ranges, r[2])

\* the read events of thread t's running call, in order
Reads(t) == SelectSeq(log[t], LAMBDA e : e.op = "read")

\* the open events of thread t's running call, in order
Opens(t) == SelectSeq(log[t], LAMBDA e : e.op = "open")

\* the byte ranges that successful reads of the running call have written
OkReadRanges(t) ==
    { <<Reads(t)[k].off, Reads(t)[k].off + Reads(t)[k].n>> :
        k \in { j \in 1..Len(Reads(t)) : Reads(t)[j].ok } }

Returned(t) == pc[t] = "done"

\* C1: a call of the Solaris backend that has returned Ok has had every byte
\* of its buffer written, and written by a read that succeeded; any other
\* return is an error.  No Ok is returned with a byte left unwritten.
C1_OkMeansFullyWritten ==
    \A t \in Threads :
        (backend = "solaris" /\ Returned(t)) =>
            /\ result[t] \in {"Ok", "Unknown"}
            /\ result[t] = "Ok" =>
                /\ AllCovered(dest[t].written, dest[t].len)
                /\ AllCovered(OkReadRanges(t), dest[t].len)

C1_Witness ==
    \E t \in Threads :
        /\ backend = "solaris" /\ Returned(t) /\ result[t] = "Ok"
        /\ dest[t].len = 4096
        /\ Len(Reads(t)) = 4

\* C2: the capability probe (the zero-length getrandom syscall) has been
\* executed at most once in the process, whatever calls the threads made.
C2_ProbeAtMostOnce ==
    /\ Len(probeLog) <= 1
    /\ \A t \in Threads : RNG_SOURCE[t].tag \in {"GetRandom", "Device"} => Len(probeLog) = 1

\* two threads have resolved their source, one of them is in a later call,
\* and the probe ran once
C2_Witness ==
    /\ Len(probeLog) = 1
    /\ \E t, u \in Threads :
        /\ t # u
        /\ RNG_SOURCE[t].tag \in {"GetRandom", "Device"}
        /\ RNG_SOURCE[u].tag \in {"GetRandom", "Device"}
        /\ Returned(u) /\ result[u] = "Ok" /\ dest[u].len > 0
        /\ Returned(t) /\ Len(Opens(t)) = 0 /\ dest[t].len > 0

\* the thread is running the closure of CHECKER.call_once
InClosure(t) == pc[t] \in {"probe", "store", "once_done"}

C3_State ==
    /\ Cardinality({t \in Threads : InClosure(t)}) <= 1
    /\ Len(probeLog) <= 1
    /\ stores <= 1
    /\ \A t \in Threads :
        \* the closure has stored what its probe computed
        /\ pc[t] = "once_done" => (stores = 1 /\ AVAILABLE = available[t])
        \* is_getrandom_available is about to return, or has returned true or false
        /\ (\/ pc[t] \in {"load", "open"}
            \/ RNG_SOURCE[t].tag \in {"GetRandom", "Device"}
            \/ openFailed[t]) =>
            /\ CHECKER = "COMPLETE"
            /\ Len(probeLog) = 1 /\ stores = 1
            /\ RNG_SOURCE[t].tag = "GetRandom" => AVAILABLE
            /\ (pc[t] = "open" \/ RNG_SOURCE[t].tag = "Device" \/ openFailed[t]) => ~AVAILABLE

C3_Step ==
    /\ CHECKER = "COMPLETE" =>
        (CHECKER' = "COMPLETE" /\ AVAILABLE' = AVAILABLE /\ stores' = stores)
    /\ (stores' # stores \/ AVAILABLE' # AVAILABLE) =>
        (stores = 0 /\ stores' = 1 /\ CHECKER = "RUNNING")

\* C3: one caller at most runs the probe; a caller gets the flag's value only
\* after the probe's result has been stored, so it gets the probed value and
\* all callers get the same one; the flag is stored once and never changes
\* after the Once has completed.
C3_OneProberSameAnswer == []C3_State /\ [][C3_Step]_vars

\* the race: one thread has probed "available" and not stored it yet (the flag
\* still holds its default, false), every other thread waits in call_once
C3_Witness ==
    /\ Cardinality(threads) >= 2
    /\ \E t \in threads :
        /\ pc[t] = "store" /\ available[t] = TRUE /\ AVAILABLE = FALSE
        /\ \A u \in threads \ {t} : pc[u] = "call_once"

ProbedENOSYS ==
    /\ Len(probeLog) >= 1
    /\ probeLog[1].ret = -1
    /\ probeLog[1].errno = "ENOSYS"

\* C4: after a probe that failed with ENOSYS the flag is false, no thread's
\* source is GetRandom, and every chunk read of every call is a read of the
\* thread's open device handle, never the syscall.
C4_EnosysMeansDeviceOnly ==
    ProbedENOSYS =>
        /\ (stores >= 1 \/ CHECKER = "COMPLETE") => ~AVAILABLE
        /\ \A t \in Threads :
            /\ RNG_SOURCE[t].tag # "GetRandom"
            /\ pc[t] = "read" => RNG_SOURCE[t].tag = "Device"
            /\ \A k \in 1..Len(Reads(t)) :
                /\ Reads(t)[k].src = "device"
                /\ Reads(t)[k].file \in openFiles
                /\ RNG_SOURCE[t].tag = "Device"
                /\ Reads(t)[k].file = RNG_SOURCE[t].file

C4_Witness ==
    /\ ProbedENOSYS
    /\ \E t, u \in Threads :
        /\ t # u
        /\ Returned(t) /\ result[t] = "Ok" /\ Len(Reads(t)) = 2
        /\ Returned(u) /\ result[u] = "Ok" /\ Len(Reads(u)) = 2

LastIsFailedOpen(t) ==
    /\ Len(log[t]) > 0
    /\ log[t][Len(log[t])].op = "open"
    /\ ~log[t][Len(log[t])].ok

\* C5: a call in which File::open failed returns Unknown, has read nothing and
\* leaves the thread's source None; a thread that has seen an open fail starts
\* its next non-empty call with another open (or, once an open succeeded, with
\* a read of its handle), and that call returns Ok when its OS calls succeed.
C5_OpenFailureNotCached ==
    \A t \in Threads :
        /\ (Returned(t) /\ LastIsFailedOpen(t)) =>
            /\ result[t] = "Unknown"
            /\ RNG_SOURCE[t] = SrcNone
            /\ Len(Reads(t)) = 0
            /\ dest[t].written = {}
            /\ ~AVAILABLE
        /\ (openFailed[t] /\ pc[t] = "idle") => RNG_SOURCE[t].tag \in {"None", "Device"}
        /\ (openFailed[t] /\ Returned(t) /\ dest[t].len > 0) =>
            /\ log[t] # <<>>
            /\ \/ log[t][1].op = "open"
               \/ log[t][1].op = "read" /\ log[t][1].file \in openFiles
            /\ (\A k \in 1..Len(log[t]) : log[t][k].ok) => result[t] = "Ok"

\* an open failed in an earlier call of the thread; this call opened the
\* device and returned Ok
C5_Witness ==
    \E t \in Threads :
        /\ openFailed[t]
        /\ Returned(t) /\ result[t] = "Ok" /\ dest[t].len > 0
        /\ log[t][1].op = "open" /\ log[t][1].ok

InCall(t) == pc[t] \notin {"idle", "exited"}

C6_State ==
    \A t \in Threads :
        (backend = "solaris" /\ InCall(t) /\ dest[t].len = 0) =>
            /\ Returned(t) /\ result[t] = "Ok"
            /\ log[t] = <<>>
            /\ dest[t].written = {}

C6_Step ==
    \A t \in Threads :
        (backend = "solaris" /\ pc[t] = "idle" /\ InCall(t)' /\ dest'[t].len = 0) =>
            /\ Returned(t)' /\ result'[t] = "Ok"
            /\ UNCHANGED <<RNG_SOURCE, CHECKER, AVAILABLE, probeLog, stores,
                           openFiles, opens, openFailed, available>>

\* C6: a call of the Solaris backend on an empty buffer returns Ok in one
\* step, with no probe, no call_once, no open and no read, and leaves every
\* thread's source, the flag and the Once as they were.
C6_EmptyBufferIsNoOp == []C6_State /\ [][C6_Step]_vars

\* an empty call has returned Ok on a thread whose source is unresolved while
\* another thread holds the Once, and on a thread whose source is resolved
C6_Witness ==
    \E t, u \in Threads :
        /\ backend = "solaris"
        /\ Returned(t) /\ dest[t].len = 0 /\ result[t] = "Ok"
        /\ RNG_SOURCE[t] = SrcNone
        /\ CHECKER = "RUNNING" /\ pc[u] = "store"

\* the size of the k-th chunk (k = 1, 2, ...) of a buffer of L bytes
C7_ExpectedSize(L, k) == IF k * 1024 <= L THEN 1024 ELSE L % 1024

C8_EveryCallReturns ==
    \A t \in Threads : (InCall(t) /\ ~Returned(t)) ~> Returned(t)

\* all threads are in call_once before the Once has been entered
C8_Witness ==
    /\ Cardinality(threads) >= 2
    /\ CHECKER = "INCOMPLETE"
    /\ \A t \in threads : pc[t] = "call_once"

\* C9: the stub backend returns Unavailable for every buffer, the empty one
\* included, and touches neither the buffer nor the OS; the Solaris backend
\* never returns Unavailable: it returns Ok or Unknown.
C9_ErrorKinds ==
    /\ backend = "dummy" =>
        /\ probeLog = <<>> /\ openFiles = {} /\ CHECKER = "INCOMPLETE"
        /\ \A t \in Threads :
            InCall(t) =>
                /\ Returned(t) /\ result[t] = "Unavailable"
                /\ dest[t].written = {} /\ log[t] = <<>>
    /\ backend = "solaris" =>
        \A t \in Threads :
            /\ result[t] # "Unavailable"
            /\ Returned(t) <=> result[t] \in {"Ok", "Unknown"}

C9_Witness ==
    \E t \in Threads :
        /\ backend = "dummy"
        /\ Returned(t) /\ dest[t].len = 0 /\ result[t] = "Unavailable"

\* C10: the probe is a getrandom syscall on a buffer of length 0, and the flag
\* stored from it is true when it succeeded, false when it failed with ENOSYS,
\* and true when it failed with any other errno.
C10_ProbeMapping ==
    /\ \A k \in 1..Len(probeLog) : probeLog[k].size = 0 /\ probeLog[k].ret \in {0, -1}
    /\ stores >= 1 =>
        /\ Len(probeLog) = 1
        /\ probeLog[1].ret = 0 => AVAILABLE
        /\ (probeLog[1].ret = -1 /\ probeLog[1].errno = "ENOSYS") => ~AVAILABLE
        /\ (probeLog[1].ret = -1 /\ probeLog[1].errno # "ENOSYS") => AVAILABLE
        /\ ~AVAILABLE => (probeLog[1].ret = -1 /\ probeLog[1].errno = "ENOSYS")

\* a probe that failed with another errno has set the flag to true
C10_Witness ==
    /\ stores = 1 /\ CHECKER = "COMPLETE"
    /\ probeLog[1].ret = -1 /\ probeLog[1].errno = "EFAULT"
    /\ AVAILABLE

\* C11: a read that failed (an error or a short count, of the syscall or of
\* the device) is the last OS call of its call: the call has returned Unknown
\* with no read after it, for the same chunk or a later one, and no chunk is
\* read twice.
C11_FirstFailureEndsCall ==
    \A t \in Threads :
        /\ \A k \in 1..Len(log[t]) :
            (log[t][k].op = "read" /\ ~log[t][k].ok) =>
                /\ k = Len(log[t])
                /\ log[t][k].n < log[t][k].size
                /\ Returned(t) /\ result[t] = "Unknown"
        /\ \A j, k \in 1..Len(Reads(t)) : j < k => Reads(t)[j].off < Reads(t)[k].off
        /\ (Returned(t) /\ backend = "solaris" /\ result[t] = "Unknown") =>
            (log[t] # <<>> /\ ~log[t][Len(log[t])].ok)

\* the second of three chunks failed with a short count: two reads, no third
C11_Witness ==
    \E t \in Threads :
        /\ Returned(t) /\ result[t] = "Unknown" /\ dest[t].len = 3000
        /\ Len(Reads(t)) = 2
        /\ Reads(t)[1].ok
        /\ ~Reads(t)[2].ok /\ Reads(t)[2].n = 1023 /\ Reads(t)[2].src = "syscall"

Alive(t) == pc[t] # "exited"

C12_Step ==
    \A t \in Threads :
        (Alive(t)' /\ RNG_SOURCE'[t] # RNG_SOURCE[t]) =>
            /\ RNG_SOURCE[t] = SrcNone
            /\ RNG_SOURCE'[t].tag \in {"GetRandom", "Device"}

\* C12: a thread's source starts None, and while the thread lives it changes
\* only from None to GetRandom or from None to Device: once resolved it stays
\* what it is through every later call, failed reads included.
C12_SourceMonotonic ==
    /\ \A t \in Threads : RNG_SOURCE[t] = SrcNone
    /\ [][C12_Step]_vars

\* a call entered with the source already Device has failed its first read,
\* and the source is still Device
C12_Witness ==
    \E t \in Threads :
        /\ Returned(t) /\ result[t] = "Unknown"
        /\ Len(log[t]) = 1 /\ log[t][1].op = "read" /\ log[t][1].src = "device"
        /\ RNG_SOURCE[t].tag = "Device"

C13_State ==
    \A t \in Threads :
        /\ opens[t] <= 1
        /\ Len(SelectSeq(log[t], LAMBDA e : e.op = "open" /\ e.ok)) <= 1
        /\ RNG_SOURCE[t].tag = "Device" =>
            /\ opens[t] = 1
            /\ RNG_SOURCE[t].file \in openFiles
            /\ \A k \in 1..Len(log[t]) :
                log[t][k].file # NoFile => log[t][k].file = RNG_SOURCE[t].file
        /\ \A k \in 1..Len(Reads(t)) :
            Reads(t)[k].src = "device" =>
                (RNG_SOURCE[t].tag = "Device" /\ Reads(t)[k].file \in openFiles)

C13_Step ==
    \A t \in Threads :
        (RNG_SOURCE[t].tag = "Device" /\ Alive(t)') =>
            /\ RNG_SOURCE'[t] = RNG_SOURCE[t]
            /\ RNG_SOURCE[t].file \in openFiles'
            /\ opens'[t] = opens[t]

\* C13: a thread opens the device successfully at most once; while it lives
\* and its source is Device, the source holds that one handle, the handle
\* stays open, every device read of the thread goes through it, and no other
\* open is made, a failed read changing none of this.
C13_OneHandlePerThread == []C13_State /\ [][C13_Step]_vars

\* a call entered with the handle already open has read one chunk through it
\* and failed the next; the handle is still the thread's and still open
C13_Witness ==
    \E t \in Threads :
        /\ Returned(t) /\ result[t] = "Unknown"
        /\ Len(log[t]) = 2
        /\ log[t][1].op = "read" /\ log[t][1].ok /\ log[t][1].src = "device"
        /\ log[t][2].op = "read" /\ ~log[t][2].ok
        /\ log[t][2].file = RNG_SOURCE[t].file
        /\ RNG_SOURCE[t].file \in openFiles

\* C14: every open handle is the handle of a live thread whose source is
\* Device, so a thread that ended has its handle closed and there are never
\* more open handles than live threads.
C14_HandlesOfLiveThreads ==
    /\ \A h \in openFiles :
        /\ h[1] \in threads /\ Alive(h[1])
        /\ RNG_SOURCE[h[1]] = SrcDevice(h)
    /\ \A t \in Threads : ~Alive(t) => RNG_SOURCE[t] = SrcDropped
    /\ Cardinality(openFiles) <= Cardinality({t \in threads : Alive(t)})

\* a thread that had opened the device has ended, another one holds the only
\* open handle
C14_Witness ==
    \E t, u \in Threads :
        /\ t # u
        /\ ~Alive(t) /\ opens[t] = 1
        /\ Alive(u) /\ RNG_SOURCE[u].tag = "Device"
        /\ openFiles = {RNG_SOURCE[u].file}

C15_State ==
    \A t \in Threads :
        /\ RNG_SOURCE[t].tag = "Device" => RNG_SOURCE[t].file[1] = t
        /\ \A k \in 1..Len(log[t]) :
            log[t][k].file # NoFile => log[t][k].file[1] = t

\* what belongs to thread t: its source and its running call
C15_Local(t) ==
    <<RNG_SOURCE[t], opens[t], openFailed[t], pc[t], dest[t], off[t],
      available[t], result[t], log[t]>>

C15_Step ==
    /\ Cardinality({t \in Threads : C15_Local(t)' # C15_Local(t)}) <= 1
    /\ \A t \in Threads :
        RNG_SOURCE'[t] # RNG_SOURCE[t] => pc[t] \in {"load", "open", "idle"}

\* C15: a step of one thread's call (resolving its source, failing an open,
\* failing a read) leaves every other thread's source and call as they were,
\* and every device read of a thread goes through a handle that this thread
\* opened.
C15_ThreadsIndependent == []C15_State /\ [][C15_Step]_vars

\* one thread reads through its own handle while another one has just failed
\* to open the device and is still unresolved
C15_Witness ==
    \E t, u \in Threads :
        /\ t # u
        /\ pc[t] = "read" /\ Len(Reads(t)) = 1 /\ Reads(t)[1].file = <<t, 1>>
        /\ Returned(u) /\ LastIsFailedOpen(u) /\ RNG_SOURCE[u] = SrcNone

\* the Once has completed with the flag true
FlagTrue == CHECKER = "COMPLETE" /\ AVAILABLE

\* C16: once the flag is true no thread opens the device or reads from it:
\* no handle is open, no source is Device, every read is a syscall read, and a
\* call whose syscall read failed has returned Unknown with the source still
\* GetRandom and no open attempted.
C16_FlagTrueMeansSyscallOnly ==
    FlagTrue =>
        /\ openFiles = {}
        /\ \A t \in Threads :
            /\ opens[t] = 0 /\ ~openFailed[t]
            /\ pc[t] # "open"
            /\ RNG_SOURCE[t].tag # "Device"
            /\ Len(Opens(t)) = 0
            /\ \A k \in 1..Len(Reads(t)) :
                /\ Reads(t)[k].src = "syscall"
                /\ RNG_SOURCE[t] = SrcGetRandom
                /\ ~Reads(t)[k].ok => (Returned(t) /\ result[t] = "Unknown")

\* the probe failed with an errno other than ENOSYS, and a call whose second
\* syscall read failed has returned Unknown
C16_Witness ==
    /\ FlagTrue
    /\ probeLog[1].ret = -1 /\ probeLog[1].errno = "EAGAIN"
    /\ \E t \in Threads :
        /\ Returned(t) /\ result[t] = "Unknown"
        /\ Len(log[t]) = 2 /\ log[t][1].ok /\ ~log[t][2].ok
        /\ RNG_SOURCE[t] = SrcGetRandom

\* the end of the chunk that starts at offset o in a buffer of L bytes
C17_ChunkEnd(L, o) == IF o + 1024 <= L THEN o + 1024 ELSE L

\* C17: when a call has failed at a chunk, every byte before that chunk has
\* been written by a read that succeeded, and no byte after that chunk has
\* been written; when it has failed at the open, no byte has been written.
C17_FailureFrame ==
    \A t \in Threads :
        (Returned(t) /\ result[t] = "Unknown") =>
            LET last == log[t][Len(log[t])] IN
            IF last.op = "open"
            THEN dest[t].written = {}
            ELSE /\ last.off % 1024 = 0
                 /\ AllCovered(OkReadRanges(t), last.off)
                 /\ AllCovered(dest[t].written, last.off)
                 /\ \A r \in dest[t].written :
                        r[2] <= C17_ChunkEnd(dest[t].len, last.off)

\* the second of three chunks failed after 1023 of its bytes: the first chunk
\* is written, the third is untouched
C17_Witness ==
    \E t \in Threads :
        /\ Returned(t) /\ result[t] = "Unknown" /\ dest[t].len = 3000
        /\ dest[t].written = {<<0, 1024>>, <<1024, 2047>>}
        /\ Reads(t)[Len(Reads(t))].src = "device"

\* the call of thread t has passed the point where its source is resolved
C18_Resolved(t) ==
    /\ backend = "solaris"
    /\ dest[t].len > 0
    /\ pc[t] \in {"read", "done"}

\* C18: with the flag false, a call on a non-empty buffer that found the
\* source None has made one open attempt, before any read: a failed one ends
\* the call with nothing else done, a successful one is followed by reads
\* only; a call that found the source Device has made none.
C18_OneOpenPerCall ==
    \A t \in Threads :
        /\ Len(Opens(t)) <= 1
        /\ Len(Opens(t)) = 1 =>
            /\ log[t][1].op = "open"
            /\ ~log[t][1].ok => (Len(log[t]) = 1 /\ Returned(t) /\ result[t] = "Unknown")
        /\ pc[t] = "open" => log[t] = <<>>
        /\ (C18_Resolved(t) /\ CHECKER = "COMPLETE" /\ ~AVAILABLE) =>
            \/ Len(Opens(t)) = 1
            \/ /\ Len(Opens(t)) = 0
               /\ RNG_SOURCE[t].tag = "Device"
               /\ log[t] # <<>> => log[t][1].file = RNG_SOURCE[t].file

\* a thread that never saw an open fail has opened the device once in this
\* call and read both chunks
C18_Witness ==
    \E t \in Threads :
        /\ ~openFailed[t]
        /\ Returned(t) /\ result[t] = "Ok"
        /\ Len(log[t]) = 3
        /\ log[t][1].op = "open" /\ log[t][1].ok
        /\ log[t][2].op = "read" /\ log[t][3].op = "read"

====
